---- MODULE Spec2Model ----
(***************************************************************************)
(* Schedule / override / session engine of schedule.py, as a state machine *)
(* over the SQLite tables the module owns.                                 *)
(*                                                                         *)
(* Dates are day numbers counted from 2024-09-01 (a Sunday); a date string *)
(* "YYYY-MM-DD" written by strftime and its day number order the same way. *)
(* Times of day are minutes since midnight and stand for the zero-padded   *)
(* "HH:MM" strings that strftime("%H:%M") writes, on which the string      *)
(* comparisons of the SQL statements agree with the comparison of minutes. *)
(***************************************************************************)
EXTENDS Integers, FiniteSets, Sequences, TLC

VARIABLES
    group_schedules,            \* rows (group_id, start_date, end_date)
    group_schedule_days,        \* rows (group_id, weekday, start_time, end_time)
    group_schedule_exclusions,  \* rows (group_id, date)
    sessions,                   \* rows (id, group_id, date, start_time, end_time, is_temporary, override_id)
    attendance,                 \* rows (session_id, student_id)
    group_schedule_overrides,   \* rows (id, group_id, start_date, end_date)
    group_override_days,        \* rows (override_id, weekday, start_time, end_time)
    group_override_exclusions,  \* rows (override_id, date)
    students,                   \* rows (id, join_date) of DB.py
    student_group,              \* rows (student_id, group_id) of DB.py
    session_seq,                \* AUTOINCREMENT counter of sessions
    override_seq,               \* AUTOINCREMENT counter of group_schedule_overrides
    now,                        \* the wall clock read by datetime.now(): [date, time]
    last,                       \* the last call made and how it ended
    chain,                      \* progress of create override -> future-only save -> reapply
    steps,                      \* calls and clock ticks so far
    txn                         \* the writer's open transaction and its uncommitted working copy

vars == <<group_schedules, group_schedule_days, group_schedule_exclusions,
          sessions, attendance, group_schedule_overrides, group_override_days,
          group_override_exclusions, students, student_group, session_seq, override_seq,
          now, last, chain, steps, txn>>

-----------------------------------------------------------------------------
(* Bounds of the model *)

FirstDay == 28          \* first modelled date: 2024-09-29, a Sunday
NumDays == 3            \* modelled dates are FirstDay .. FirstDay + NumDays - 1
MaxSteps == 3           \* calls and clock ticks in one run

Days == FirstDay .. (FirstDay + NumDays - 1)

Groups == {1}
Students == {1, 2}

\* (start_time, end_time) pairs a weekday rule may carry: 10:00-11:00, 00:05-01:05
Slots == {<<600, 660>>, <<5, 65>>}

\* times of day at which the clock is read: 09:30, 09:45, 10:15, 23:45
ClockTimes == {570, 585, 615, 1425}

-----------------------------------------------------------------------------
(* Dates and times *)

\* override_id of a session that no override produced
NULL == 0

\* the protection window added to now before sessions count as future
ProtectMinutes == 30

\* a weekday numbering that starts the week on Sunday
Weekday_SundayFirst(d) == d % 7

\* date.weekday(): Monday = 0 .. Sunday = 6; day 0 is Sunday 2024-09-01
Weekday(d) == (d + 6) % 7

\* now_dt + timedelta(minutes=30), split again into date and "%H:%M"
CutoffDt(n) ==
    IF n.time + ProtectMinutes >= 1440
    THEN [date |-> n.date + 1, time |-> n.time + ProtectMinutes - 1440]
    ELSE [date |-> n.date, time |-> n.time + ProtectMinutes]

\* SQL: date > ? OR (date = ? AND start_time > ?)
StartsAfter(d, st, c) == d > c.date \/ (d = c.date /\ st > c.time)

-----------------------------------------------------------------------------
(* The store: one record of tables, so that a transaction is a function *)

Db ==
    [group_schedules |-> group_schedules,
     group_schedule_days |-> group_schedule_days,
     group_schedule_exclusions |-> group_schedule_exclusions,
     sessions |-> sessions,
     attendance |-> attendance,
     group_schedule_overrides |-> group_schedule_overrides,
     group_override_days |-> group_override_days,
     group_override_exclusions |-> group_override_exclusions,
     session_seq |-> session_seq,
     override_seq |-> override_seq]

\* no transaction is open on any connection
NoTxn == [open |-> FALSE]

\* payload None / collapsed schedule section
None == [none |-> TRUE]

IsNone(payload) == "none" \in DOMAIN payload

Ok(db) == [err |-> "none", db |-> db]

Raise(e, db) == [err |-> e, db |-> db]

\* UNIQUE(group_id, date, start_time, end_time)
SessionKey(s) == <<s.group_id, s.date, s.start_time, s.end_time>>

\* a deletion of sessions with foreign keys off: the attendance rows stay
DeleteSessions_NoCascade(db, gone) ==
    [db EXCEPT !.sessions = @ \ gone]

\* DELETE FROM sessions ...; attendance rows go with their session (ON DELETE CASCADE)
DeleteSessions(db, gone) ==
    [db EXCEPT !.sessions = @ \ gone,
               !.attendance = {a \in @ : a.session_id \notin {s.id : s \in gone}}]

\* an insert that does not enforce the UNIQUE key of sessions
InsertSessions_NoUnique(db, rows) ==
    LET rank(r) == Cardinality({q \in rows : q.date < r.date}) + 1
    IN  Ok([db EXCEPT !.sessions = @ \cup
                {[id |-> db.session_seq + rank(r),
                  group_id |-> r.group_id, date |-> r.date,
                  start_time |-> r.start_time, end_time |-> r.end_time,
                  is_temporary |-> r.is_temporary, override_id |-> r.override_id] : r \in rows},
            !.session_seq = @ + Cardinality(rows)])

\* executemany INSERT INTO sessions: rows are inserted in date order, each taking
\* the next id; the first row whose key is already stored raises IntegrityError
\* and the rows before it stay written until the transaction is rolled back
InsertSessions(db, rows) ==
    LET keys == {SessionKey(s) : s \in db.sessions}
        bad == {r \in rows : SessionKey(r) \in keys}
        done == {r \in rows : \A b \in bad : r.date < b.date}
        rank(r) == Cardinality({q \in done : q.date < r.date}) + 1
        withId(r) == [id |-> db.session_seq + rank(r),
                      group_id |-> r.group_id, date |-> r.date,
                      start_time |-> r.start_time, end_time |-> r.end_time,
                      is_temporary |-> r.is_temporary, override_id |-> r.override_id]
        db2 == [db EXCEPT !.sessions = @ \cup {withId(r) : r \in done},
                          !.session_seq = @ + Cardinality(done)]
    IN  IF bad = {} THEN Ok(db2) ELSE Raise("IntegrityError", db2)

\* an error path that re-raises without rolling back
Rollback_Missing(db0, res) == res

\* except Exception: conn.rollback(); raise
Rollback(db0, res) == IF res.err = "none" THEN res ELSE Raise(res.err, db0)

-----------------------------------------------------------------------------
(* Schedule rule helpers *)

\* weekday_time = {int(w): (start, end) for w, info in days_map.items() if info.get("enabled")}
WeekdayTime(days_map) ==
    [w \in {x \in DOMAIN days_map : days_map[x].enabled} |->
        <<days_map[w].start, days_map[w].end>>]

RECURSIVE CountFrom(_, _, _, _)
CountFrom(cur, end_d, selected_weekdays, exclusions) ==
    IF cur > end_d THEN 0
    ELSE (IF Weekday(cur) \in selected_weekdays /\ cur \notin exclusions THEN 1 ELSE 0)
         + CountFrom(cur + 1, end_d, selected_weekdays, exclusions)

\* a preview count that forgets the excluded dates
_count_sessions_NoExclusions(start_d, end_d, selected_weekdays, exclusions) ==
    IF end_d < start_d THEN 0
    ELSE IF selected_weekdays = {} THEN 0
    ELSE CountFrom(start_d, end_d, selected_weekdays, {})

\* the preview count
_count_sessions(start_d, end_d, selected_weekdays, exclusions) ==
    IF end_d < start_d THEN 0
    ELSE IF selected_weekdays = {} THEN 0
    ELSE CountFrom(start_d, end_d, selected_weekdays, exclusions)

\* the generation loop of the three regenerations: one row per date of
\* [sd, ed] whose weekday is enabled and which is not excluded
SessionRows(group_id, sd, ed, weekday_time, excluded_set, is_temporary, override_id) ==
    {[group_id |-> group_id, date |-> d,
      start_time |-> weekday_time[Weekday(d)][1],
      end_time |-> weekday_time[Weekday(d)][2],
      is_temporary |-> is_temporary, override_id |-> override_id] :
        d \in {x \in sd..ed : Weekday(x) \in DOMAIN weekday_time /\ x \notin excluded_set}}

\* upsert of group_schedules, replacement of the weekday rules and exclusions
WriteBaseRule(db, group_id, payload) ==
    LET wt == WeekdayTime(payload.days)
    IN  [db EXCEPT
            !.group_schedules = {r \in @ : r.group_id # group_id} \cup
                {[group_id |-> group_id, start_date |-> payload.start_date,
                  end_date |-> payload.end_date]},
            !.group_schedule_days = {r \in @ : r.group_id # group_id} \cup
                {[group_id |-> group_id, weekday |-> w,
                  start_time |-> wt[w][1], end_time |-> wt[w][2]] : w \in DOMAIN wt},
            !.group_schedule_exclusions = {r \in @ : r.group_id # group_id} \cup
                {[group_id |-> group_id, date |-> d] : d \in payload.exclusions}]

\* a wipe of the base schedule that forgets the excluded dates
DeleteBaseRule_KeepExclusions(db, group_id) ==
    [db EXCEPT !.group_schedules = {r \in @ : r.group_id # group_id},
               !.group_schedule_days = {r \in @ : r.group_id # group_id}]

\* DELETE of the three base-schedule tables for the group
DeleteBaseRule(db, group_id) ==
    [db EXCEPT !.group_schedules = {r \in @ : r.group_id # group_id},
               !.group_schedule_days = {r \in @ : r.group_id # group_id},
               !.group_schedule_exclusions = {r \in @ : r.group_id # group_id}]

-----------------------------------------------------------------------------
(* Full regenerate *)

\* a full regenerate that keeps the sessions an override produced
save_group_schedule_and_regenerate_KeepTemporary(db, group_id, payload) ==
    IF IsNone(payload)
    THEN Ok(DeleteSessions(DeleteBaseRule(db, group_id),
                           {s \in db.sessions : s.group_id = group_id /\ s.is_temporary = 0}))
    ELSE LET db1 == WriteBaseRule(db, group_id, payload)
             db2 == DeleteSessions(db1, {s \in db1.sessions :
                                            s.group_id = group_id /\ s.is_temporary = 0})
             rows == SessionRows(group_id, payload.start_date, payload.end_date,
                                 WeekdayTime(payload.days), payload.exclusions, 0, NULL)
         IN  Rollback(db, InsertSessions(db2, rows))

save_group_schedule_and_regenerate(db, group_id, payload) ==
    IF IsNone(payload)
    THEN Ok(DeleteSessions(DeleteBaseRule(db, group_id),
                           {s \in db.sessions : s.group_id = group_id}))
    ELSE LET db1 == WriteBaseRule(db, group_id, payload)
             db2 == DeleteSessions(db1, {s \in db1.sessions : s.group_id = group_id})
             rows == SessionRows(group_id, payload.start_date, payload.end_date,
                                 WeekdayTime(payload.days), payload.exclusions, 0, NULL)
         IN  Rollback(db, InsertSessions(db2, rows))

-----------------------------------------------------------------------------
(* Future-only regenerate *)

\* a lock check that forgets the date of the session
_has_running_session_AnyDate(db, group_id, now_dt) ==
    \E s \in db.sessions :
        /\ s.group_id = group_id
        /\ s.start_time <= now_dt.time
        /\ s.end_time > now_dt.time

_has_running_session(db, group_id, now_dt) ==
    \E s \in db.sessions :
        /\ s.group_id = group_id
        /\ s.date = now_dt.date
        /\ s.start_time <= now_dt.time
        /\ s.end_time > now_dt.time

\* a deletion that takes now, not now + 30 minutes, as its cutoff
_delete_future_sessions_NoBuffer(db, group_id, now_dt) ==
    DeleteSessions(db, {s \in db.sessions :
        /\ s.group_id = group_id
        /\ StartsAfter(s.date, s.start_time, now_dt)})

_delete_future_sessions(db, group_id, now_dt) ==
    DeleteSessions(db, {s \in db.sessions :
        /\ s.group_id = group_id
        /\ StartsAfter(s.date, s.start_time, CutoffDt(now_dt))})

save_group_schedule_and_regenerate_edit(db, group_id, payload, now_dt) ==
    IF _has_running_session(db, group_id, now_dt)
    THEN Rollback(db, Raise("RuntimeError", db))
    ELSE IF IsNone(payload)
    THEN Ok(_delete_future_sessions(DeleteBaseRule(db, group_id), group_id, now_dt))
    ELSE LET db1 == WriteBaseRule(db, group_id, payload)
             db2 == _delete_future_sessions(db1, group_id, now_dt)
             \* today = now_dt.date(); now_t = now_dt.strftime("%H:%M")
             rows == {r \in SessionRows(group_id, payload.start_date, payload.end_date,
                                        WeekdayTime(payload.days), payload.exclusions, 0, NULL) :
                        StartsAfter(r.date, r.start_time, now_dt)}
         IN  Rollback(db, InsertSessions(db2, rows))

-----------------------------------------------------------------------------
(* Temporary overrides *)

\* a range deletion that removes only the sessions an override produced
_delete_sessions_in_range_after_cutoff_TemporaryOnly(db, group_id, start_date, end_date, now_dt) ==
    DeleteSessions(db, {s \in db.sessions :
        /\ s.group_id = group_id
        /\ s.date >= start_date
        /\ s.date <= end_date
        /\ s.is_temporary = 1
        /\ StartsAfter(s.date, s.start_time, CutoffDt(now_dt))})

_delete_sessions_in_range_after_cutoff(db, group_id, start_date, end_date, now_dt) ==
    DeleteSessions(db, {s \in db.sessions :
        /\ s.group_id = group_id
        /\ s.date >= start_date
        /\ s.date <= end_date
        /\ StartsAfter(s.date, s.start_time, CutoffDt(now_dt))})

\* (days_map, exclusions) of a stored override
_get_override_rules(db, override_id) ==
    LET rows == {r \in db.group_override_days : r.override_id = override_id}
    IN  [days |-> [w \in {r.weekday : r \in rows} |->
                    LET r == CHOOSE x \in rows : x.weekday = w
                    IN  [enabled |-> TRUE, start |-> r.start_time, end |-> r.end_time]],
         exclusions |-> {r.date : r \in {x \in db.group_override_exclusions :
                                            x.override_id = override_id}}]

\* a replacement that adds the given exclusions and deletes none
_replace_override_exclusions_Append(db, override_id, exclusions) ==
    [db EXCEPT !.group_override_exclusions =
        @ \cup {[override_id |-> override_id, date |-> d] : d \in exclusions}]

\* DELETE FROM group_override_exclusions WHERE override_id = ?; executemany INSERT
_replace_override_exclusions(db, override_id, exclusions) ==
    [db EXCEPT !.group_override_exclusions =
        {r \in @ : r.override_id # override_id} \cup
        {[override_id |-> override_id, date |-> d] : d \in exclusions}]

\* the id the next INSERT INTO group_schedule_overrides receives (cur.lastrowid)
NextOverrideId(db) == db.override_seq + 1

_create_override(db, group_id, start_date, end_date, days_map, exclusions) ==
    LET override_id == NextOverrideId(db)
        wt == WeekdayTime(days_map)
        db1 == [db EXCEPT
                  !.group_schedule_overrides = @ \cup
                      {[id |-> override_id, group_id |-> group_id,
                        start_date |-> start_date, end_date |-> end_date]},
                  !.override_seq = override_id,
                  !.group_override_days = @ \cup
                      {[override_id |-> override_id, weekday |-> w,
                        start_time |-> wt[w][1], end_time |-> wt[w][2]] : w \in DOMAIN wt}]
    IN  _replace_override_exclusions(db1, override_id, exclusions)

\* a deletion of an override with foreign keys off: its weekday and exclusion
\* rows stay
DeleteOverride_NoCascade(db, override_id) ==
    [db EXCEPT !.group_schedule_overrides = {r \in @ : r.id # override_id}]

\* DELETE FROM group_schedule_overrides WHERE id = ?; its weekday and exclusion
\* rows go with it (ON DELETE CASCADE); sessions.override_id has no foreign key
DeleteOverride(db, override_id) ==
    [db EXCEPT !.group_schedule_overrides = {r \in @ : r.id # override_id},
               !.group_override_days = {r \in @ : r.override_id # override_id},
               !.group_override_exclusions = {r \in @ : r.override_id # override_id}]

\* a regeneration that inserts the override's slots after now, not after
\* now + 30 minutes
_regenerate_override_future_InsertsFromNow(db, group_id, override_id, start_date, end_date, days_map, exclusions, now_dt) ==
    LET db1 == _delete_sessions_in_range_after_cutoff(db, group_id, start_date, end_date, now_dt)
        rows == {r \in SessionRows(group_id, start_date, end_date,
                                   WeekdayTime(days_map), exclusions, 1, override_id) :
                    StartsAfter(r.date, r.start_time, now_dt)}
    IN  InsertSessions(db1, rows)

\* a regeneration that forgets the excluded dates of the override
_regenerate_override_future_NoExclusions(db, group_id, override_id, start_date, end_date, days_map, exclusions, now_dt) ==
    LET db1 == _delete_sessions_in_range_after_cutoff(db, group_id, start_date, end_date, now_dt)
        rows == {r \in SessionRows(group_id, start_date, end_date,
                                   WeekdayTime(days_map), {}, 1, override_id) :
                    StartsAfter(r.date, r.start_time, CutoffDt(now_dt))}
    IN  InsertSessions(db1, rows)

_regenerate_override_future(db, group_id, override_id, start_date, end_date, days_map, exclusions, now_dt) ==
    LET db1 == _delete_sessions_in_range_after_cutoff(db, group_id, start_date, end_date, now_dt)
        rows == {r \in SessionRows(group_id, start_date, end_date,
                                   WeekdayTime(days_map), exclusions, 1, override_id) :
                    StartsAfter(r.date, r.start_time, CutoffDt(now_dt))}
    IN  InsertSessions(db1, rows)

\* a remainder that keeps every exclusion of the override it is cut from
KeepExclusions_All(exclusions, lo, hi) == exclusions

\* [d for d in old_exclusions if lo <= parse(d) <= hi]
KeepExclusions(exclusions, lo, hi) == {d \in exclusions : lo <= d /\ d <= hi}

\* one pass of the loop over the overlapping overrides: o is the row as it was
\* read before the loop, [new_start, new_end] the range of the new override
AdjustOverlap(db, group_id, o, new_start, new_end, now_dt) ==
    LET old_start == o.start_date
        old_end == o.end_date
        old == _get_override_rules(db, o.id)
        setEnd(d, e) == [d EXCEPT !.group_schedule_overrides =
                            {IF r.id = o.id THEN [r EXCEPT !.end_date = e] ELSE r : r \in @}]
        setStart(d, b) == [d EXCEPT !.group_schedule_overrides =
                            {IF r.id = o.id THEN [r EXCEPT !.start_date = b] ELSE r : r \in @}]
    IN  IF old_start >= new_start /\ old_end <= new_end
        THEN Ok(DeleteOverride(db, o.id))
        ELSE IF old_start < new_start /\ old_end > new_end
        THEN LET left_end == new_start - 1
                 left_ex == KeepExclusions(old.exclusions, old_start, left_end)
                 db1 == _replace_override_exclusions(setEnd(db, left_end), o.id, left_ex)
                 right_start == new_end + 1
                 right_end == old_end
                 right_ex == KeepExclusions(old.exclusions, right_start, right_end)
             IN  IF right_start <= right_end
                 THEN _regenerate_override_future(
                          _create_override(db1, group_id, right_start, right_end,
                                           old.days, right_ex),
                          group_id, NextOverrideId(db1), right_start, right_end,
                          old.days, right_ex, now_dt)
                 ELSE Ok(db1)
        ELSE IF old_start < new_start /\ new_start <= old_end /\ old_end <= new_end
        THEN LET new_old_end == new_start - 1
                 left_ex == KeepExclusions(old.exclusions, old_start, new_old_end)
             IN  IF new_old_end < old_start
                 THEN Ok(DeleteOverride(db, o.id))
                 ELSE Ok(_replace_override_exclusions(setEnd(db, new_old_end), o.id, left_ex))
        ELSE IF new_start <= old_start /\ old_start <= new_end /\ new_end < old_end
        THEN LET new_old_start == new_end + 1
                 right_ex == KeepExclusions(old.exclusions, new_old_start, old_end)
             IN  IF new_old_start > old_end
                 THEN Ok(DeleteOverride(db, o.id))
                 ELSE Ok(_replace_override_exclusions(setStart(db, new_old_start), o.id, right_ex))
        ELSE Ok(db)

\* ORDER BY start_date ASC (rows of equal start_date in rowid order)
FirstByStart(rows) ==
    CHOOSE o \in rows : \A p \in rows :
        o.start_date < p.start_date \/ (o.start_date = p.start_date /\ o.id <= p.id)

\* for oid, osd, oed in overlaps: ... ; an exception leaves the loop
RECURSIVE AdjustOverlaps(_, _, _, _, _, _)
AdjustOverlaps(res, group_id, todo, new_start, new_end, now_dt) ==
    IF todo = {} \/ res.err # "none" THEN res
    ELSE LET o == FirstByStart(todo)
         IN  AdjustOverlaps(AdjustOverlap(res.db, group_id, o, new_start, new_end, now_dt),
                            group_id, todo \ {o}, new_start, new_end, now_dt)

\* an overlap query that misses the overrides touching the new range at one date
Overlaps_Strict(db, group_id, start_date, end_date) ==
    {o \in db.group_schedule_overrides :
        /\ o.group_id = group_id
        /\ ~(o.end_date <= start_date \/ o.start_date >= end_date)}

\* SELECT ... WHERE group_id = ? AND NOT (end_date < ? OR start_date > ?)
Overlaps(db, group_id, start_date, end_date) ==
    {o \in db.group_schedule_overrides :
        /\ o.group_id = group_id
        /\ ~(o.end_date < start_date \/ o.start_date > end_date)}

save_temporary_override_and_regenerate_edit(db, group_id, payload, now_dt) ==
    IF _has_running_session(db, group_id, now_dt)
    THEN Rollback(db, Raise("RuntimeError", db))
    ELSE LET r1 == AdjustOverlaps(Ok(db), group_id,
                                  Overlaps(db, group_id, payload.start_date, payload.end_date),
                                  payload.start_date, payload.end_date, now_dt)
             db2 == _create_override(r1.db, group_id, payload.start_date, payload.end_date,
                                     payload.days, payload.exclusions)
         IN  IF r1.err # "none" THEN Rollback(db, r1)
             ELSE Rollback(db, _regenerate_override_future(
                                   db2, group_id, NextOverrideId(r1.db),
                                   payload.start_date, payload.end_date,
                                   payload.days, payload.exclusions, now_dt))

\* for oid, sd, ed in rows: _regenerate_override_future(...)
RECURSIVE RegenerateAll(_, _, _, _)
RegenerateAll(res, group_id, todo, now_dt) ==
    IF todo = {} \/ res.err # "none" THEN res
    ELSE LET o == FirstByStart(todo)
             rules == _get_override_rules(res.db, o.id)
         IN  RegenerateAll(_regenerate_override_future(res.db, group_id, o.id,
                                                       o.start_date, o.end_date,
                                                       rules.days, rules.exclusions, now_dt),
                           group_id, todo \ {o}, now_dt)

\* a reapplication that first clears every future session of the group
apply_overrides_future_ClearsGroup(db, group_id, now_dt) ==
    LET res == RegenerateAll(Ok(_delete_future_sessions(db, group_id, now_dt)), group_id,
                             {o \in db.group_schedule_overrides : o.group_id = group_id},
                             now_dt)
    IN  IF res.err = "none" THEN res ELSE Raise(res.err, db)

\* no except clause: an exception reaches conn.close() with nothing committed
apply_overrides_future(db, group_id, now_dt) ==
    LET res == RegenerateAll(Ok(db), group_id,
                             {o \in db.group_schedule_overrides : o.group_id = group_id},
                             now_dt)
    IN  IF res.err = "none" THEN res ELSE Raise(res.err, db)

-----------------------------------------------------------------------------
(* Manual session edits of the View Sessions window *)

\* a manual insert that tags the session temporary
add_session_Temporary(db, group_id, d, st, et) ==
    Rollback(db, InsertSessions(db, {[group_id |-> group_id, date |-> d,
                                      start_time |-> st, end_time |-> et,
                                      is_temporary |-> 1, override_id |-> NULL]}))

add_session(db, group_id, d, st, et) ==
    Rollback(db, InsertSessions(db, {[group_id |-> group_id, date |-> d,
                                      start_time |-> st, end_time |-> et,
                                      is_temporary |-> 0, override_id |-> NULL]}))

update_session(db, session_id, d, st, et) ==
    LET hit == {s \in db.sessions : s.id = session_id}
        moved == {[s EXCEPT !.date = d, !.start_time = st, !.end_time = et] : s \in hit}
        rest == db.sessions \ hit
    IN  IF hit = {} THEN Raise("ValueError", db)
        ELSE IF \E m \in moved : SessionKey(m) \in {SessionKey(s) : s \in rest}
        THEN Rollback(db, Raise("IntegrityError", db))
        ELSE Ok([db EXCEPT !.sessions = rest \cup moved])

delete_session(db, session_id) ==
    Ok(DeleteSessions(db, {s \in db.sessions : s.id = session_id}))

-----------------------------------------------------------------------------
(* Attendance: the scanner that writes marks, the history that reads them *)

\* the fields of the "YYYY-MM-DD" string of a day number (September 2024 has
\* 30 days, October 31; day 0 is 2024-09-01)
DateStr(d) ==
    IF d < 30 THEN [year |-> 2024, month |-> 9, day |-> d + 1]
    ELSE IF d < 61 THEN [year |-> 2024, month |-> 10, day |-> d - 29]
    ELSE [year |-> 2024, month |-> 11, day |-> d - 60]

\* the window of the scanner around a session, in minutes
BufferMinutes == 30

\* sessions of today, of the student's groups, with start - buffer <= now <= end
ScanCandidates(db, groups_of, student_id, now_dt) ==
    {s \in db.sessions :
        /\ s.date = now_dt.date
        /\ \E sg \in groups_of : sg.student_id = student_id /\ sg.group_id = s.group_id
        /\ s.start_time - BufferMinutes <= now_dt.time
        /\ now_dt.time <= (IF s.end_time <= s.start_time THEN s.end_time + 1440 ELSE s.end_time)}

\* INSERT OR IGNORE INTO attendance for every candidate session
_mark_present(db, session_ids, student_id) ==
    [db EXCEPT !.attendance = @ \cup
        {[session_id |-> sid, student_id |-> student_id] : sid \in session_ids}]

\* QRSessionScanner.process_student_id: unknown student, no group, no session
\* window now or an unpaid month end the scan without a mark
process_student_id(db, studs, groups_of, student_id, paid_ok, now_dt) ==
    LET candidates == ScanCandidates(db, groups_of, student_id, now_dt)
    IN  IF ~(\E st \in studs : st.id = student_id) THEN db
        ELSE IF ~(\E sg \in groups_of : sg.student_id = student_id) THEN db
        ELSE IF candidates = {} THEN db
        ELSE IF ~paid_ok THEN db
        ELSE _mark_present(db, {s.id : s \in candidates}, student_id)

\* the ids among session_ids that have at least one attendance row
get_attendance_counts_for_sessions_All(db, session_ids) == session_ids

\* keys of {session_id: COUNT(*)} ... GROUP BY session_id
get_attendance_counts_for_sessions(db, session_ids) ==
    {sid \in session_ids : \E a \in db.attendance : a.session_id = sid}

_get_present_session_ids_for_student(db, student_id, session_ids) ==
    {sid \in session_ids :
        [session_id |-> sid, student_id |-> student_id] \in db.attendance}

\* rows.sort(key=lambda r: (r["date"], r["session_id"]))
RECURSIVE SortRows(_)
SortRows(rows) ==
    IF rows = {} THEN <<>>
    ELSE LET first == CHOOSE r \in rows : \A q \in rows :
                          r.date < q.date \/ (r.date = q.date /\ r.session_id <= q.session_id)
         IN  <<first>> \o SortRows(rows \ {first})

\* {(year, month): [{session_id, date, day, present}, ...]}
get_student_attendance_by_month(db, studs, group_id, student_id, now_dt) ==
    LET st == CHOOSE x \in studs : x.id = student_id
        join_d == st.join_date
        ended_sessions == {s \in db.sessions :
            /\ s.group_id = group_id
            /\ ~(s.date < join_d)
            /\ (s.date < now_dt.date \/ (s.date = now_dt.date /\ s.end_time <= now_dt.time))}
        taken_counts == get_attendance_counts_for_sessions(db, {s.id : s \in ended_sessions})
        present_ids == _get_present_session_ids_for_student(db, student_id, taken_counts)
        shown == {s \in ended_sessions : s.id \in taken_counts}
        row(s) == [session_id |-> s.id, date |-> s.date, day |-> DateStr(s.date).day,
                   present |-> s.id \in present_ids]
        key(s) == <<DateStr(s.date).year, DateStr(s.date).month>>
    IN  [k \in {key(s) : s \in shown} |-> SortRows({row(s) : s \in {x \in shown : key(x) = k}})]

\* ORDER BY s.date ASC, s.start_time ASC (rows that agree on both taken in the
\* order of their end time and id)
RECURSIVE SortByStart(_)
SortByStart(rows) ==
    IF rows = {} THEN <<>>
    ELSE LET first == CHOOSE r \in rows : \A q \in rows :
                          <<r.date, r.start, r.end, r.session_id>> = <<q.date, q.start, q.end, q.session_id>>
                          \/ r.date < q.date
                          \/ (r.date = q.date /\ r.start < q.start)
                          \/ (r.date = q.date /\ r.start = q.start /\ r.end < q.end)
                          \/ (r.date = q.date /\ r.start = q.start /\ r.end = q.end
                                /\ r.session_id < q.session_id)
         IN  <<first>> \o SortByStart(rows \ {first})

\* presence rows that take every ended session, whatever the join date
fetch_student_presence_rows_NoJoinDate(db, group_id, student_id, join_date, now_dt) ==
    SortByStart({[session_id |-> s.id, date |-> s.date, start |-> s.start_time,
                  end |-> s.end_time,
                  present |-> [session_id |-> s.id, student_id |-> student_id] \in db.attendance] :
                 s \in {x \in db.sessions :
                          /\ x.group_id = group_id
                          /\ (x.date < now_dt.date
                                \/ (x.date = now_dt.date /\ x.end_time <= now_dt.time))}})

\* sessions LEFT JOIN attendance of the student WHERE s.group_id = ? AND
\* s.date >= join_date AND (s.date < today OR (s.date = today AND s.end_time <= now_t));
\* now_t drops the seconds of now, so end_time <= now_t exactly when the end
\* instant is at or before now
fetch_student_presence_rows(db, group_id, student_id, join_date, now_dt) ==
    SortByStart({[session_id |-> s.id, date |-> s.date, start |-> s.start_time,
                  end |-> s.end_time,
                  present |-> [session_id |-> s.id, student_id |-> student_id] \in db.attendance] :
                 s \in {x \in db.sessions :
                          /\ x.group_id = group_id
                          /\ x.date >= join_date
                          /\ (x.date < now_dt.date
                                \/ (x.date = now_dt.date /\ x.end_time <= now_dt.time))}})

\* {(year, month): [row with its day, ...]} in the order of the rows
group_rows_by_month(rows) ==
    LET key(r) == <<DateStr(r.date).year, DateStr(r.date).month>>
        withDay == [i \in DOMAIN rows |->
                      [session_id |-> rows[i].session_id, date |-> rows[i].date,
                       start |-> rows[i].start, end |-> rows[i].end,
                       present |-> rows[i].present, day |-> DateStr(rows[i].date).day]]
    IN  [k \in {key(rows[i]) : i \in DOMAIN rows} |->
            SelectSeq(withDay, LAMBDA r : key(r) = k)]

\* the data of the attendance window of a student: get_student, then the
\* presence rows since the join date, grouped by month
open_student_attendance_record(db, studs, group_id, student_id, now_dt) ==
    LET st == CHOOSE x \in studs : x.id = student_id
    IN  group_rows_by_month(
            fetch_student_presence_rows(db, group_id, student_id, st.join_date, now_dt))

-----------------------------------------------------------------------------
(* Group membership and the roster of a session *)

\* DB.set_student_groups: the student's links are replaced by links to the
\* given groups; an unknown student raises NotFoundError before any write
set_student_groups(studs, groups_of, student_id, group_ids) ==
    IF ~(\E st \in studs : st.id = student_id)
    THEN [err |-> "NotFoundError", student_group |-> groups_of]
    ELSE [err |-> "none",
          student_group |-> {sg \in groups_of : sg.student_id # student_id} \cup
                            {[student_id |-> student_id, group_id |-> g] : g \in group_ids}]

\* the ids of a set of students as the list ORDER BY s.name returns them; a
\* student's name is taken to sort as the student's id does
RECURSIVE ByName(_)
ByName(ids) ==
    IF ids = {} THEN <<>>
    ELSE LET first == CHOOSE i \in ids : \A j \in ids : i <= j
         IN  <<first>> \o ByName(ids \ {first})

\* student_group JOIN students WHERE sg.group_id = ?
_get_group_students_by_id(studs, groups_of, group_id) ==
    ByName({st.id : st \in {x \in studs :
                [student_id |-> x.id, group_id |-> group_id] \in groups_of}})

\* a roster whose present list is every student with a mark for the session
get_session_review_lists_AllMarked(db, studs, groups_of, session_id, group_id) ==
    LET members == _get_group_students_by_id(studs, groups_of, group_id)
        present_ids == {a.student_id : a \in {x \in db.attendance : x.session_id = session_id}}
    IN  [taken |-> present_ids # {},
         total |-> Len(members),
         present |-> ByName(present_ids),
         absent |-> SelectSeq(members, LAMBDA i : i \notin present_ids)]

get_session_review_lists(db, studs, groups_of, session_id, group_id) ==
    LET members == _get_group_students_by_id(studs, groups_of, group_id)
        present_ids == {a.student_id : a \in {x \in db.attendance : x.session_id = session_id}}
    IN  [taken |-> present_ids # {},
         total |-> Len(members),
         present |-> SelectSeq(members, LAMBDA i : i \in present_ids),
         absent |-> SelectSeq(members, LAMBDA i : i \notin present_ids)]

-----------------------------------------------------------------------------
(* Inputs *)

LastDay == FirstDay + NumDays - 1

\* the day on which the clock is read
Today == FirstDay + 1

Instants == [date : {Today}, time : ClockTimes]

Later(a, b) == a.date > b.date \/ (a.date = b.date /\ a.time > b.time)

\* the weekday rows of the form: every weekday carries the entered times,
\* the weekdays of W are ticked
DaysMap(W, slot) ==
    [w \in 0..6 |-> [enabled |-> w \in W, start |-> slot[1], end |-> slot[2]]]

AllWeekdays == {Weekday(d) : d \in Days}

\* the payloads _collect_payload lets through (end date not before start date,
\* at least one weekday ticked, end time after start time), built from the
\* given ranges, weekday sets, time slots and exclusion sets
PayloadsOf(ranges, wsets, slots, exsets) ==
    {[start_date |-> r[1], end_date |-> r[2], days |-> DaysMap(W, slot), exclusions |-> ex] :
        r \in ranges, W \in wsets, slot \in slots, ex \in exsets}

Ranges == {r \in Days \X Days : r[1] <= r[2]}

\* base rules and override rules offered to the full state machine
BasePayloads == PayloadsOf({<<FirstDay, LastDay>>}, {AllWeekdays, {Weekday(Today)}}, Slots, {{}})

OverridePayloads ==
    PayloadsOf({<<Today, LastDay>>, <<Today, Today>>, <<FirstDay, LastDay>>},
               {AllWeekdays}, Slots, {{}})

\* override rules offered to the override-only state machine
RangePayloads ==
    PayloadsOf(Ranges, {AllWeekdays}, {<<5, 65>>}, {{}, {FirstDay, LastDay}})

-----------------------------------------------------------------------------
(* The state machine *)

EmptyDb ==
    [group_schedules |-> {}, group_schedule_days |-> {}, group_schedule_exclusions |-> {},
     sessions |-> {}, attendance |-> {}, group_schedule_overrides |-> {},
     group_override_days |-> {}, group_override_exclusions |-> {},
     session_seq |-> 0, override_seq |-> 0]

IsDb(db) ==
    /\ group_schedules = db.group_schedules
    /\ group_schedule_days = db.group_schedule_days
    /\ group_schedule_exclusions = db.group_schedule_exclusions
    /\ sessions = db.sessions
    /\ attendance = db.attendance
    /\ group_schedule_overrides = db.group_schedule_overrides
    /\ group_override_days = db.group_override_days
    /\ group_override_exclusions = db.group_override_exclusions
    /\ session_seq = db.session_seq
    /\ override_seq = db.override_seq

Store(db) ==
    /\ group_schedules' = db.group_schedules
    /\ group_schedule_days' = db.group_schedule_days
    /\ group_schedule_exclusions' = db.group_schedule_exclusions
    /\ sessions' = db.sessions
    /\ attendance' = db.attendance
    /\ group_schedule_overrides' = db.group_schedule_overrides
    /\ group_override_days' = db.group_override_days
    /\ group_override_exclusions' = db.group_override_exclusions
    /\ session_seq' = db.session_seq
    /\ override_seq' = db.override_seq

\* one call of a function of schedule.py: its result is stored, the call recorded
Call(op, group_id, res) ==
    /\ steps < MaxSteps
    /\ steps' = steps + 1
    /\ Store(res.db)
    /\ last' = [op |-> op, group_id |-> group_id, err |-> res.err]
    /\ UNCHANGED <<now, students, student_group, txn>>

\* handle_add_group: the group is created and its schedule, if the form has
\* one, is saved with the full regenerate
Init ==
    /\ \E g \in Groups, p \in BasePayloads \cup {None} :
          IsDb(save_group_schedule_and_regenerate(EmptyDb, g, p).db)
    /\ students = {}
    /\ student_group = {}
    /\ now \in Instants
    /\ last = [op |-> "init", group_id |-> 0, err |-> "none"]
    /\ chain = [g \in Groups |-> 0]
    /\ steps = 0
    /\ txn = NoTxn

\* time passes between two calls
Tick ==
    /\ steps < MaxSteps
    /\ steps' = steps + 1
    /\ \E n \in Instants : Later(n, now) /\ now' = n
    /\ last' = [op |-> "tick", group_id |-> 0, err |-> "none"]
    /\ UNCHANGED <<group_schedules, group_schedule_days, group_schedule_exclusions,
                   sessions, attendance, group_schedule_overrides, group_override_days,
                   group_override_exclusions, students, student_group,
                   session_seq, override_seq, chain, txn>>

SaveBaseScheduleOf(payloads) ==
    \E g \in Groups, p \in payloads :
        /\ Call("save_base_schedule", g, save_group_schedule_and_regenerate(Db, g, p))
        /\ chain' = [chain EXCEPT ![g] = 0]

SaveBaseScheduleFutureOnlyOf(payloads) ==
    \E g \in Groups, p \in payloads :
        LET res == save_group_schedule_and_regenerate_edit(Db, g, p, now)
        IN  /\ Call("save_base_schedule_future_only", g, res)
            /\ chain' = [chain EXCEPT ![g] =
                            IF @ = 1 /\ res.err = "none" /\ ~IsNone(p) THEN 2 ELSE 0]

CreateTemporaryOverrideOf(payloads) ==
    \E g \in Groups, p \in payloads :
        LET res == save_temporary_override_and_regenerate_edit(Db, g, p, now)
        IN  /\ Call("create_temporary_override", g, res)
            /\ chain' = [chain EXCEPT ![g] = IF res.err = "none" THEN 1 ELSE 0]

SaveBaseSchedule == SaveBaseScheduleOf(BasePayloads \cup {None})

SaveBaseScheduleFutureOnly == SaveBaseScheduleFutureOnlyOf(BasePayloads \cup {None})

CreateTemporaryOverride == CreateTemporaryOverrideOf(OverridePayloads)

ReapplyOverridesFuture ==
    \E g \in Groups :
        LET res == apply_overrides_future(Db, g, now)
        IN  /\ Call("reapply_overrides_future", g, res)
            /\ chain' = [chain EXCEPT ![g] = IF @ = 2 /\ res.err = "none" THEN 3 ELSE 0]

AddSession ==
    \E g \in Groups, d \in Days, slot \in Slots :
        /\ Call("add_session", g, add_session(Db, g, d, slot[1], slot[2]))
        /\ chain' = [chain EXCEPT ![g] = 0]

UpdateSession ==
    \E s \in sessions, slot \in Slots :
        /\ Call("update_session", s.group_id, update_session(Db, s.id, Today, slot[1], slot[2]))
        /\ chain' = [chain EXCEPT ![s.group_id] = 0]

DeleteSession ==
    \E s \in sessions :
        /\ Call("delete_session", s.group_id, delete_session(Db, s.id))
        /\ chain' = [chain EXCEPT ![s.group_id] = 0]

Next ==
    \/ Tick
    \/ SaveBaseSchedule
    \/ SaveBaseScheduleFutureOnly
    \/ CreateTemporaryOverride
    \/ ReapplyOverridesFuture
    \/ AddSession
    \/ UpdateSession
    \/ DeleteSession

Spec == Init /\ [][Next]_vars

\* the future-only save alone, over a wider family of base rules
RichPayloads ==
    PayloadsOf({<<FirstDay, LastDay>>, <<Today, LastDay>>, <<Today, Today>>},
               {AllWeekdays, {Weekday(Today)}, {Weekday(LastDay)}}, Slots,
               {{}, {Today}})

SaveRichFutureOnly == SaveBaseScheduleFutureOnlyOf(RichPayloads \cup {None})

NextBase == Tick \/ AddSession \/ SaveRichFutureOnly

SpecBase == Init /\ [][NextBase]_vars

\* the full regenerate applied once to every rule over a window longer than a week
CountDays == FirstDay .. (FirstDay + NumDays + 5)

CountPayloads ==
    PayloadsOf({r \in CountDays \X CountDays : r[1] <= r[2]},
               SUBSET {Weekday(FirstDay), Weekday(FirstDay + 1), Weekday(FirstDay + 3)},
               {<<600, 660>>},
               {{}} \cup {{d} : d \in CountDays} \cup {{FirstDay + 1, FirstDay + 8}})

GenerateOnce == steps = 0 /\ SaveBaseScheduleOf(CountPayloads)

SpecGenerate == Init /\ [][GenerateOnce]_vars

\* the override engine alone, over every range of the modelled dates
CreateRangeOverride == CreateTemporaryOverrideOf(RangePayloads)

NextOverrides == Tick \/ CreateRangeOverride

SpecOverrides == Init /\ [][NextOverrides]_vars

\* the attendance side: a group with its schedule, enrolled students, and marks
\* written by scans before now; the scanner and the clock go on from there
\* 10:15, 11:00 and 23:45 of every modelled day
HistoryInstants == [date : Days, time : {615, 660, 1425}]

InitHistory ==
    /\ now \in HistoryInstants
    /\ \E g \in Groups, p \in BasePayloads :
          LET db0 == save_group_schedule_and_regenerate(EmptyDb, g, p).db
              opened == {s \in db0.sessions :
                            \/ s.date < now.date
                            \/ (s.date = now.date /\ s.start_time - BufferMinutes <= now.time)}
          IN  \E marks \in SUBSET {[session_id |-> s.id, student_id |-> st] :
                                      s \in opened, st \in Students} :
                  IsDb([db0 EXCEPT !.attendance = marks])
    /\ students \in {{[id |-> 1, join_date |-> j], [id |-> 2, join_date |-> FirstDay]} : j \in Days}
    /\ student_group = {[student_id |-> st, group_id |-> g] : st \in Students, g \in Groups}
    /\ last = [op |-> "init", group_id |-> 0, err |-> "none"]
    /\ chain = [g \in Groups |-> 0]
    /\ steps = 0
    /\ txn = NoTxn

TickHistory ==
    /\ steps < MaxSteps
    /\ steps' = steps + 1
    /\ \E n \in HistoryInstants : Later(n, now) /\ now' = n
    /\ last' = [op |-> "tick", group_id |-> 0, err |-> "none"]
    /\ UNCHANGED <<group_schedules, group_schedule_days, group_schedule_exclusions,
                   sessions, attendance, group_schedule_overrides, group_override_days,
                   group_override_exclusions, students, student_group,
                   session_seq, override_seq, chain, txn>>

Scan ==
    \E st \in Students, paid_ok \in BOOLEAN :
        /\ steps < MaxSteps
        /\ steps' = steps + 1
        /\ Store(process_student_id(Db, students, student_group, st, paid_ok, now))
        /\ last' = [op |-> "scan", group_id |-> 0, err |-> "none"]
        /\ UNCHANGED <<now, students, student_group, chain, txn>>

NextHistory == TickHistory \/ Scan

SpecHistory == InitHistory /\ [][NextHistory]_vars

\* override creation over rules with a disabled weekday and an excluded date,
\* on top of the sessions of the base schedule
CreatePayloads ==
    PayloadsOf({<<FirstDay, LastDay>>, <<Today, LastDay>>, <<LastDay, LastDay>>},
               {AllWeekdays, {Weekday(Today)}}, Slots, {{}, {LastDay}})

CreateRichOverride == CreateTemporaryOverrideOf(CreatePayloads)

NextCreate == Tick \/ CreateRichOverride

SpecCreate == Init /\ [][NextCreate]_vars

\* sessions with attendance: a group with its schedule and enrolled students,
\* where some of the students were marked at every session that opened before
\* now; from there marks, membership, sessions and schedules all change
AttendancePayloads ==
    PayloadsOf({<<FirstDay, LastDay>>}, {AllWeekdays}, {<<600, 660>>}, {{}, {LastDay}})

InitAttendance ==
    /\ now \in Instants
    /\ \E g \in Groups, p \in AttendancePayloads, attended \in SUBSET Students :
          LET db0 == save_group_schedule_and_regenerate(EmptyDb, g, p).db
              opened == {s \in db0.sessions :
                            \/ s.date < now.date
                            \/ (s.date = now.date /\ s.start_time - BufferMinutes <= now.time)}
          IN  IsDb([db0 EXCEPT !.attendance =
                      {[session_id |-> s.id, student_id |-> st] : s \in opened, st \in attended}])
    /\ students = {[id |-> st, join_date |-> FirstDay] : st \in Students}
    /\ student_group = {[student_id |-> st, group_id |-> g] : st \in Students, g \in Groups}
    /\ last = [op |-> "init", group_id |-> 0, err |-> "none"]
    /\ chain = [g \in Groups |-> 0]
    /\ steps = 0
    /\ txn = NoTxn

SetStudentGroups ==
    \E st \in Students, gs \in SUBSET Groups :
        LET res == set_student_groups(students, student_group, st, gs)
        IN  /\ steps < MaxSteps
            /\ steps' = steps + 1
            /\ student_group' = res.student_group
            /\ last' = [op |-> "set_student_groups", group_id |-> 0, err |-> res.err]
            /\ UNCHANGED <<group_schedules, group_schedule_days, group_schedule_exclusions,
                           sessions, attendance, group_schedule_overrides,
                           group_override_days, group_override_exclusions,
                           students, session_seq, override_seq, now, chain, txn>>

SaveAttendedSchedule == SaveBaseScheduleOf(AttendancePayloads \cup {None})

SaveAttendedScheduleFutureOnly == SaveBaseScheduleFutureOnlyOf(AttendancePayloads \cup {None})

CreateAttendedOverride ==
    CreateTemporaryOverrideOf(PayloadsOf({<<Today, LastDay>>}, {AllWeekdays}, {<<5, 65>>}, {{}}))

NextAttendance ==
    \/ Tick
    \/ Scan
    \/ SetStudentGroups
    \/ SaveAttendedSchedule
    \/ SaveAttendedScheduleFutureOnly
    \/ CreateAttendedOverride
    \/ ReapplyOverridesFuture
    \/ UpdateSession
    \/ DeleteSession

SpecAttendance == InitAttendance /\ [][NextAttendance]_vars

\* the full regenerate applied once to rules over September 2024: 2024-09-01
\* is day 0 and 2024-09-30 day 29, Monday is weekday 0, Wednesday 2 and
\* Friday 4, the times are 17:00-18:30, 2024-09-04 is day 3
ExamplePayloads ==
    PayloadsOf({0, 1, 2} \X {28, 29}, SUBSET {0, 2, 4} \ {{}}, {<<1020, 1110>>},
               {{}, {3}, {3, 10}})

GenerateExample == steps = 0 /\ SaveBaseScheduleOf(ExamplePayloads)

SpecExample == Init /\ [][GenerateExample]_vars

\* the engine called directly with rules the form would refuse: an end date
\* before the start date, or no weekday ticked
InvalidPayloads ==
    PayloadsOf({<<LastDay, FirstDay>>, <<LastDay, Today>>}, {AllWeekdays}, Slots, {{}})
    \cup PayloadsOf({<<FirstDay, LastDay>>}, {{}}, Slots, {{}})

SaveInvalid == SaveBaseScheduleOf(InvalidPayloads)

SaveInvalidFutureOnly == SaveBaseScheduleFutureOnlyOf(InvalidPayloads)

CreateInvalidOverride == CreateTemporaryOverrideOf(InvalidPayloads)

NextInvalid == Tick \/ SaveInvalid \/ SaveInvalidFutureOnly \/ CreateInvalidOverride

SpecInvalid == Init /\ [][NextInvalid]_vars

\* calls that take time: the clock goes on while a call runs. reads[1],
\* reads[2] and reads[3] are the instants of the clock when the call checks the
\* lock, when it deletes and when it inserts
\* 09:15, 09:45 and 10:15 of today
ClockReads == [date : {Today}, time : {555, 585, 615}]

\* a call whose helpers each read the clock when they run
NowDt_ReadAgain(reads, k) == reads[k]

\* now_dt = datetime.now() at the top of the call; the helpers receive now_dt
NowDt(reads, k) == reads[1]

save_group_schedule_and_regenerate_edit_over_time(db, group_id, payload, reads) ==
    IF _has_running_session(db, group_id, NowDt(reads, 1))
    THEN Rollback(db, Raise("RuntimeError", db))
    ELSE IF IsNone(payload)
    THEN Ok(_delete_future_sessions(DeleteBaseRule(db, group_id), group_id, NowDt(reads, 2)))
    ELSE LET db1 == WriteBaseRule(db, group_id, payload)
             db2 == _delete_future_sessions(db1, group_id, NowDt(reads, 2))
             rows == {r \in SessionRows(group_id, payload.start_date, payload.end_date,
                                        WeekdayTime(payload.days), payload.exclusions, 0, NULL) :
                        StartsAfter(r.date, r.start_time, NowDt(reads, 3))}
         IN  Rollback(db, InsertSessions(db2, rows))

save_temporary_override_and_regenerate_edit_over_time(db, group_id, payload, reads) ==
    IF _has_running_session(db, group_id, NowDt(reads, 1))
    THEN Rollback(db, Raise("RuntimeError", db))
    ELSE LET r1 == AdjustOverlaps(Ok(db), group_id,
                                  Overlaps(db, group_id, payload.start_date, payload.end_date),
                                  payload.start_date, payload.end_date, NowDt(reads, 2))
             db2 == _create_override(r1.db, group_id, payload.start_date, payload.end_date,
                                     payload.days, payload.exclusions)
         IN  IF r1.err # "none" THEN Rollback(db, r1)
             ELSE Rollback(db, _regenerate_override_future(
                                   db2, group_id, NextOverrideId(r1.db),
                                   payload.start_date, payload.end_date,
                                   payload.days, payload.exclusions, NowDt(reads, 3)))

\* the clock readings of a call that starts now
ReadsFrom(n) ==
    {r \in ClockReads \X ClockReads \X ClockReads :
        r[1] = n /\ ~Later(r[1], r[2]) /\ ~Later(r[2], r[3])}

InitOverTime ==
    /\ \E g \in Groups, p \in BasePayloads \cup {None} :
          IsDb(save_group_schedule_and_regenerate(EmptyDb, g, p).db)
    /\ students = {}
    /\ student_group = {}
    /\ now \in ClockReads
    /\ last = [op |-> "init", group_id |-> 0, err |-> "none"]
    /\ chain = [g \in Groups |-> 0]
    /\ steps = 0
    /\ txn = NoTxn

\* one call that starts at now and ends at its last reading of the clock
CallOverTime(op, group_id, res, reads) ==
    /\ steps < MaxSteps
    /\ steps' = steps + 1
    /\ Store(res.db)
    /\ now' = reads[3]
    /\ last' = [op |-> op, group_id |-> group_id, err |-> res.err, at |-> reads[1]]
    /\ UNCHANGED <<students, student_group, chain, txn>>

SaveBaseScheduleFutureOnlyOverTime ==
    \E g \in Groups, p \in BasePayloads \cup {None}, reads \in ReadsFrom(now) :
        CallOverTime("save_base_schedule_future_only", g,
                     save_group_schedule_and_regenerate_edit_over_time(Db, g, p, reads), reads)

CreateTemporaryOverrideOverTime ==
    \E g \in Groups, p \in OverridePayloads, reads \in ReadsFrom(now) :
        CallOverTime("create_temporary_override", g,
                     save_temporary_override_and_regenerate_edit_over_time(Db, g, p, reads), reads)

NextOverTime == SaveBaseScheduleFutureOnlyOverTime \/ CreateTemporaryOverrideOverTime

SpecOverTime == InitOverTime /\ [][NextOverTime]_vars

\* calls as transactions: a call runs its statements one after the other on
\* its own connection; what they write stays in the connection's working copy
\* until conn.commit(), and conn.rollback() or a close without commit drops it.
\* The tables of the state are the committed ones, those another connection reads

\* the working copy after each group of statements of the full regenerate
StagesFull(db, group_id, payload) ==
    IF IsNone(payload)
    THEN LET db1 == DeleteBaseRule(db, group_id)
         IN  <<Ok(db1), Ok(DeleteSessions(db1, {s \in db1.sessions : s.group_id = group_id}))>>
    ELSE LET db1 == WriteBaseRule(db, group_id, payload)
             db2 == DeleteSessions(db1, {s \in db1.sessions : s.group_id = group_id})
             rows == SessionRows(group_id, payload.start_date, payload.end_date,
                                 WeekdayTime(payload.days), payload.exclusions, 0, NULL)
         IN  <<Ok(db1), Ok(db2), InsertSessions(db2, rows)>>

\* the same for the future-only regenerate: the lock check, the schedule
\* tables, the deletion after the cutoff, the insertion
StagesEdit(db, group_id, payload, now_dt) ==
    IF _has_running_session(db, group_id, now_dt)
    THEN <<Raise("RuntimeError", db)>>
    ELSE IF IsNone(payload)
    THEN LET db1 == DeleteBaseRule(db, group_id)
         IN  <<Ok(db1), Ok(_delete_future_sessions(db1, group_id, now_dt))>>
    ELSE LET db1 == WriteBaseRule(db, group_id, payload)
             db2 == _delete_future_sessions(db1, group_id, now_dt)
             rows == {r \in SessionRows(group_id, payload.start_date, payload.end_date,
                                        WeekdayTime(payload.days), payload.exclusions, 0, NULL) :
                        StartsAfter(r.date, r.start_time, now_dt)}
         IN  <<Ok(db1), Ok(db2), InsertSessions(db2, rows)>>

\* the same for the creation of an override: the lock check, the loop over the
\* overlapping overrides, the new override's rows, the deletion inside its
\* range, the insertion of its sessions
StagesOverride(db, group_id, payload, now_dt) ==
    IF _has_running_session(db, group_id, now_dt)
    THEN <<Raise("RuntimeError", db)>>
    ELSE LET r1 == AdjustOverlaps(Ok(db), group_id,
                                  Overlaps(db, group_id, payload.start_date, payload.end_date),
                                  payload.start_date, payload.end_date, now_dt)
             db2 == _create_override(r1.db, group_id, payload.start_date, payload.end_date,
                                     payload.days, payload.exclusions)
             db3 == _delete_sessions_in_range_after_cutoff(db2, group_id, payload.start_date,
                                                           payload.end_date, now_dt)
         IN  IF r1.err # "none" THEN <<r1>>
             ELSE <<r1, Ok(db2), Ok(db3),
                    _regenerate_override_future(db2, group_id, NextOverrideId(r1.db),
                                                payload.start_date, payload.end_date,
                                                payload.days, payload.exclusions, now_dt)>>

\* the same for the reapplication: for every override in turn, the deletion
\* inside its range and the insertion of its sessions
RECURSIVE StagesReapply(_, _, _, _)
StagesReapply(res, group_id, todo, now_dt) ==
    IF todo = {} \/ res.err # "none" THEN <<>>
    ELSE LET o == FirstByStart(todo)
             rules == _get_override_rules(res.db, o.id)
             cleared == _delete_sessions_in_range_after_cutoff(res.db, group_id, o.start_date,
                                                               o.end_date, now_dt)
             filled == _regenerate_override_future(res.db, group_id, o.id,
                                                   o.start_date, o.end_date,
                                                   rules.days, rules.exclusions, now_dt)
         IN  <<Ok(cleared), filled>> \o StagesReapply(filled, group_id, todo \ {o}, now_dt)

Stages(op, db, group_id, payload, now_dt) ==
    CASE op = "save_base_schedule" -> StagesFull(db, group_id, payload)
      [] op = "save_base_schedule_future_only" -> StagesEdit(db, group_id, payload, now_dt)
      [] op = "create_temporary_override" -> StagesOverride(db, group_id, payload, now_dt)
      [] op = "reapply_overrides_future" ->
            StagesReapply(Ok(db), group_id,
                          {o \in db.group_schedule_overrides : o.group_id = group_id}, now_dt)

\* the working copy of the open transaction
Working ==
    IF txn.open /\ txn.done > 0 THEN txn.stages[txn.done].db ELSE Db

\* a store whose readers see what an open transaction has written so far
Visible_Uncommitted(committed, working) == working

\* what a reader on another connection sees: sqlite3.connect with the default
\* isolation level, one connection per call
Visible(committed, working) == committed

\* rules the transactions are run with
TxnBasePayloads == PayloadsOf({<<FirstDay, LastDay>>}, {AllWeekdays}, Slots, {{}}) \cup {None}

TxnOverridePayloads ==
    PayloadsOf({<<FirstDay, LastDay>>, <<Today, Today>>}, {AllWeekdays}, {<<5, 65>>}, {{}})

\* conn = _get_conn(); now_dt = datetime.now(): a call starts
Begin(op, payloads) ==
    \E g \in Groups, p \in payloads :
        /\ ~txn.open
        /\ steps < MaxSteps
        /\ steps' = steps + 1
        /\ txn' = [open |-> TRUE, op |-> op, group_id |-> g, payload |-> p, at |-> now,
                   stages |-> Stages(op, Db, g, p, now), done |-> 0]
        /\ UNCHANGED <<group_schedules, group_schedule_days, group_schedule_exclusions,
                       sessions, attendance, group_schedule_overrides, group_override_days,
                       group_override_exclusions, students, student_group,
                       session_seq, override_seq, now, last, chain>>

BeginSaveBaseSchedule == Begin("save_base_schedule", TxnBasePayloads)

BeginSaveBaseScheduleFutureOnly == Begin("save_base_schedule_future_only", TxnBasePayloads)

BeginCreateTemporaryOverride == Begin("create_temporary_override", TxnOverridePayloads)

BeginReapplyOverridesFuture == Begin("reapply_overrides_future", {None})

\* cur.execute / cur.executemany: the next statements run on the working copy
Statement ==
    /\ txn.open
    /\ txn.done < Len(txn.stages)
    /\ txn.done > 0 => txn.stages[txn.done].err = "none"
    /\ txn' = [txn EXCEPT !.done = @ + 1]
    /\ UNCHANGED <<group_schedules, group_schedule_days, group_schedule_exclusions,
                   sessions, attendance, group_schedule_overrides, group_override_days,
                   group_override_exclusions, students, student_group,
                   session_seq, override_seq, now, last, chain, steps>>

\* conn.commit(): the working copy becomes the committed store
Commit ==
    /\ txn.open
    /\ txn.done = Len(txn.stages)
    /\ txn.done > 0 => txn.stages[txn.done].err = "none"
    /\ Store(Working)
    /\ txn' = NoTxn
    /\ last' = [op |-> txn.op, group_id |-> txn.group_id, err |-> "none"]
    /\ UNCHANGED <<students, student_group, now, chain, steps>>

\* an exception: conn.rollback() or conn.close() without commit, then the
\* exception reaches the caller
Abort ==
    /\ txn.open
    /\ txn.done > 0
    /\ txn.stages[txn.done].err # "none"
    /\ txn' = NoTxn
    /\ last' = [op |-> txn.op, group_id |-> txn.group_id, err |-> txn.stages[txn.done].err]
    /\ UNCHANGED <<group_schedules, group_schedule_days, group_schedule_exclusions,
                   sessions, attendance, group_schedule_overrides, group_override_days,
                   group_override_exclusions, students, student_group,
                   session_seq, override_seq, now, chain, steps>>

NextTxn ==
    \/ Tick
    \/ BeginSaveBaseSchedule
    \/ BeginSaveBaseScheduleFutureOnly
    \/ BeginCreateTemporaryOverride
    \/ BeginReapplyOverridesFuture
    \/ Statement
    \/ Commit
    \/ Abort

SpecTxn == Init /\ [][NextTxn]_vars

\* marks and future-only regenerations: the scanner is the only writer of
\* marks, the clock only goes forward, and the schedule changes only through
\* the future-only save, the creation of overrides and their reapplication
MarksPayloads == PayloadsOf({<<FirstDay, LastDay>>}, {AllWeekdays}, Slots, {{}})

SaveMarkedScheduleFutureOnly == SaveBaseScheduleFutureOnlyOf(MarksPayloads \cup {None})

NextMarks ==
    \/ Tick
    \/ Scan
    \/ SaveMarkedScheduleFutureOnly
    \/ CreateAttendedOverride
    \/ ReapplyOverridesFuture

SpecMarks == InitAttendance /\ [][NextMarks]_vars

\* overrides, sessions added and deleted by hand, and reapplications
NextReapply ==
    \/ Tick
    \/ CreateTemporaryOverride
    \/ AddSession
    \/ DeleteSession
    \/ ReapplyOverridesFuture

SpecReapply == Init /\ [][NextReapply]_vars

-----------------------------------------------------------------------------
(* Vocabulary of the properties *)

EngineOps == {"save_base_schedule", "save_base_schedule_future_only",
              "create_temporary_override", "reapply_overrides_future"}

\* the step taken is a call of op for group g
Called(op, g) == steps' # steps /\ last'.op = op /\ last'.group_id = g

SessionsOf(g) == {s \in sessions : s.group_id = g}

OverridesOf(g) == {o \in group_schedule_overrides : o.group_id = g}

\* the session starts strictly after now + 30 minutes
Future(s) == StartsAfter(s.date, s.start_time, CutoffDt(now))

\* a session of the group is running at now
Running(g) ==
    \E s \in SessionsOf(g) :
        s.date = now.date /\ s.start_time <= now.time /\ now.time < s.end_time

InRange(d, o) == o.start_date <= d /\ d <= o.end_date

\* the session is a slot of the override's stored rule and is tagged temporary
MatchesOverride(s, o) ==
    /\ \E r \in group_override_days :
          /\ r.override_id = o.id
          /\ r.weekday = Weekday(s.date)
          /\ r.start_time = s.start_time
          /\ r.end_time = s.end_time
    /\ [override_id |-> o.id, date |-> s.date] \notin group_override_exclusions
    /\ s.is_temporary = 1

AfterChain(g) == chain[g] = 3 /\ last.op = "reapply_overrides_future" /\ last.group_id = g

RowsOf(g, db) ==
    LET ov == {o.id : o \in {x \in db.group_schedule_overrides : x.group_id = g}}
    IN  <<{r \in db.group_schedules : r.group_id = g},
          {r \in db.group_schedule_days : r.group_id = g},
          {r \in db.group_schedule_exclusions : r.group_id = g},
          {r \in db.group_schedule_overrides : r.group_id = g},
          {r \in db.group_override_days : r.override_id \in ov},
          {r \in db.group_override_exclusions : r.override_id \in ov},
          {r \in db.sessions : r.group_id = g}>>

\* C2: while a session of the group is running, each of the four mutating
\* calls for the group fails with the locked error (RuntimeError) and leaves the
\* group's schedule, override and session rows unchanged.
C2_LockedRejection ==
    [][\A g \in Groups : \A op \in EngineOps :
          (Running(g) /\ Called(op, g)) =>
              (last'.err = "RuntimeError" /\ RowsOf(g, Db)' = RowsOf(g, Db))]_vars

C4_OverridesDisjoint ==
    \A o1 \in group_schedule_overrides : \A o2 \in group_schedule_overrides :
        (o1 # o2 /\ o1.group_id = o2.group_id) =>
            (o1.end_date < o2.start_date \/ o2.end_date < o1.start_date)

C4_Witness ==
    /\ last.op = "create_temporary_override" /\ last.err = "none"
    /\ \E o1 \in group_schedule_overrides : \E o2 \in group_schedule_overrides :
          /\ o1.group_id = o2.group_id
          /\ o1.id < o2.id /\ o2.id = override_seq
          /\ o1.end_date + 1 = o2.start_date

\* C5: no two stored sessions share (group, date, start_time, end_time).
C5_NoDuplicateSessions ==
    \A s \in sessions : \A t \in sessions :
        SessionKey(s) = SessionKey(t) => s = t

C5_Witness ==
    /\ last.err = "IntegrityError"
    /\ Cardinality(sessions) >= 2

\* the stored base rule of the group, as the arguments of the preview count
StoredCount(g) ==
    LET r == CHOOSE x \in group_schedules : x.group_id = g
    IN  _count_sessions(r.start_date, r.end_date,
                        {x.weekday : x \in {y \in group_schedule_days : y.group_id = g}},
                        {x.date : x \in {y \in group_schedule_exclusions : y.group_id = g}})

\* C6: after the full regenerate of a rule, the number of sessions of the group
\* equals the preview count of that rule.
C6_PreviewEqualsGenerated ==
    \A g \in Groups :
        (last.op = "save_base_schedule" /\ last.group_id = g /\ last.err = "none"
            /\ \E r \in group_schedules : r.group_id = g)
        => Cardinality(SessionsOf(g)) = StoredCount(g)

C6_Witness ==
    \E g \in Groups :
        /\ last.op = "save_base_schedule" /\ last.group_id = g
        /\ Cardinality(SessionsOf(g)) >= 2
        /\ \E r \in group_schedules : \E e \in group_schedule_exclusions :
              \E w \in group_schedule_days :
                /\ r.group_id = g /\ e.group_id = g /\ w.group_id = g
                /\ r.start_date <= e.date /\ e.date <= r.end_date
                /\ w.weekday = Weekday(e.date)
                /\ r.end_date - r.start_date >= 7

\* C8: a Schedule Engine call that ends with an error leaves every table and
\* both id counters exactly as they were before the call.
C8_ErrorRollsBack ==
    [][\A g \in Groups : \A op \in EngineOps :
          (Called(op, g) /\ last'.err # "none") => Db' = Db]_vars

C8_Witness ==
    /\ last.op = "save_base_schedule_future_only"
    /\ last.err = "IntegrityError"

\* C9: a committed save_base_schedule_future_only with a rule inserts exactly
\* the slots of the rule that start strictly after now + 30 minutes.
C9_InsertsAfterCutoffOnly ==
    [][\A g \in Groups :
          (Called("save_base_schedule_future_only", g) /\ last'.err = "none"
              /\ \E r \in group_schedules' : r.group_id = g)
          => LET r == CHOOSE x \in group_schedules' : x.group_id = g
                 wd == {y \in group_schedule_days' : y.group_id = g}
                 ex == {y.date : y \in {z \in group_schedule_exclusions' : z.group_id = g}}
                 want == {<<d, w.start_time, w.end_time>> :
                            d \in r.start_date .. r.end_date, w \in wd}
                 slots == {x \in want :
                            /\ \E w \in wd : w.weekday = Weekday(x[1])
                                              /\ w.start_time = x[2] /\ w.end_time = x[3]
                            /\ x[1] \notin ex
                            /\ StartsAfter(x[1], x[2], CutoffDt(now))}
                 inserted == {s \in sessions' : s.group_id = g /\ s.id > session_seq}
             IN  {<<s.date, s.start_time, s.end_time>> : s \in inserted} = slots]_vars

\* the weekday rules and the exclusions stored for an override
OverrideDays(days, id) ==
    {<<r.weekday, r.start_time, r.end_time>> : r \in {x \in days : x.override_id = id}}

OverrideExclusions(exclusions, id) ==
    {r.date : r \in {x \in exclusions : x.override_id = id}}

\* C10: when a committed create_temporary_override(N) finds a stored override O
\* with O.start < N.start and O.end > N.end, O's row keeps its id and weekday
\* rules with range [O.start, N.start - 1], a new row with O's weekday rules
\* covers [N.end + 1, O.end], and each of the two keeps exactly those
\* exclusions of O that lie in its own range.
C10_SplitKeepsBothRemainders ==
    [][\A g \in Groups :
          (Called("create_temporary_override", g) /\ last'.err = "none") =>
          \A n \in group_schedule_overrides' : \A o \in OverridesOf(g) :
              (n.id = override_seq' /\ o.start_date < n.start_date /\ o.end_date > n.end_date)
              => /\ [o EXCEPT !.end_date = n.start_date - 1] \in group_schedule_overrides'
                 /\ OverrideDays(group_override_days', o.id)
                        = OverrideDays(group_override_days, o.id)
                 /\ OverrideExclusions(group_override_exclusions', o.id)
                        = {d \in OverrideExclusions(group_override_exclusions, o.id) :
                              o.start_date <= d /\ d <= n.start_date - 1}
                 /\ \E r \in group_schedule_overrides' :
                       /\ r.id > override_seq /\ r.id # n.id
                       /\ r.group_id = g
                       /\ r.start_date = n.end_date + 1 /\ r.end_date = o.end_date
                       /\ OverrideDays(group_override_days', r.id)
                              = OverrideDays(group_override_days, o.id)
                       /\ OverrideExclusions(group_override_exclusions', r.id)
                              = {d \in OverrideExclusions(group_override_exclusions, o.id) :
                                    n.end_date + 1 <= d /\ d <= o.end_date}]_vars

C10_Witness ==
    /\ last.op = "create_temporary_override" /\ last.err = "none"
    /\ \E o \in group_schedule_overrides : \E n \in group_schedule_overrides :
          \E r \in group_schedule_overrides :
            /\ n.id = override_seq /\ r.id = override_seq - 1 /\ o.id < r.id
            /\ o.group_id = n.group_id /\ r.group_id = n.group_id
            /\ o.end_date + 1 = n.start_date /\ n.end_date + 1 = r.start_date
            /\ OverrideDays(group_override_days, o.id) = OverrideDays(group_override_days, r.id)
            /\ OverrideExclusions(group_override_exclusions, o.id) = {o.start_date}
            /\ OverrideExclusions(group_override_exclusions, r.id) = {r.end_date}

\* the history the program shows for a student of a group, now
History(g, st) == get_student_attendance_by_month(Db, students, g, st, now)

\* the rows of a history that stand for a session, with their buckets
Entries(h, s) ==
    {<<k, i>> \in UNION {{k} \X (1..Len(h[k])) : k \in DOMAIN h} : h[k][i].session_id = s.id}

\* the end instant of the session is strictly before now
EndedBefore(s) == s.date < now.date \/ (s.date = now.date /\ s.end_time < now.time)

Taken(s) == \E a \in attendance : a.session_id = s.id

Marked(s, st) == [session_id |-> s.id, student_id |-> st] \in attendance

JoinDate(st) == (CHOOSE x \in students : x.id = st).join_date

\* C7: the month history of a student leaves out every session without any
\* attendance row; an ended session on or after the join date with at least
\* one row (of any student) appears once, in the bucket of its year and month,
\* with present true exactly when the student's own row exists.
C7_HistoryTriState ==
    \A g \in Groups : \A st \in {x.id : x \in students} : \A s \in SessionsOf(g) :
        /\ ~Taken(s) => Entries(History(g, st), s) = {}
        /\ (EndedBefore(s) /\ s.date >= JoinDate(st) /\ Taken(s)) =>
              /\ Cardinality(Entries(History(g, st), s)) = 1
              /\ \A e \in Entries(History(g, st), s) :
                    /\ e[1] = <<DateStr(s.date).year, DateStr(s.date).month>>
                    /\ History(g, st)[e[1]][e[2]].present = Marked(s, st)

C7_Witness ==
    \E g \in Groups : \E st \in {x.id : x \in students} :
        \E s1 \in SessionsOf(g) : \E s2 \in SessionsOf(g) : \E s3 \in SessionsOf(g) :
            /\ last.op = "scan"
            /\ EndedBefore(s1) /\ s1.date >= JoinDate(st) /\ ~Taken(s1)
            /\ EndedBefore(s2) /\ s2.date >= JoinDate(st) /\ Taken(s2) /\ ~Marked(s2, st)
            /\ EndedBefore(s3) /\ s3.date >= JoinDate(st) /\ Marked(s3, st)
            /\ DateStr(s2.date).month # DateStr(s3.date).month

-----------------------------------------------------------------------------
(* Override creation: what it writes and what it leaves *)

\* the override row with the highest id carries the range, weekday rules and
\* exclusions of rule p
NewestIs(g, p) ==
    /\ [id |-> override_seq', group_id |-> g, start_date |-> p.start_date,
        end_date |-> p.end_date] \in group_schedule_overrides'
    /\ {r.date : r \in {x \in group_override_exclusions' : x.override_id = override_seq'}}
            = p.exclusions
    /\ {<<r.weekday, r.start_time, r.end_time>> :
            r \in {x \in group_override_days' : x.override_id = override_seq'}}
            = {<<w, p.days[w].start, p.days[w].end>> : w \in {x \in 0..6 : p.days[x].enabled}}

\* the step taken is the call of create_temporary_override for g with rule p,
\* and it committed
Created(g, p) ==
    /\ Called("create_temporary_override", g)
    /\ last'.err = "none"
    /\ NewestIs(g, p)
    /\ LET res == save_temporary_override_and_regenerate_edit(Db, g, p, now)
       IN  res.err = "none" /\ Store(res.db)

\* (date, start, end) of the slots of rule p that start strictly after now + 30 minutes
FutureSlots(p) ==
    {<<d, p.days[Weekday(d)].start, p.days[Weekday(d)].end>> :
        d \in {x \in p.start_date .. p.end_date :
                  /\ p.days[Weekday(x)].enabled
                  /\ x \notin p.exclusions
                  /\ StartsAfter(x, p.days[Weekday(x)].start, CutoffDt(now))}}

\* C11: after create_temporary_override(N) commits at now, the stored sessions
\* of the group dated inside [N.start, N.end] that start strictly after
\* now + 30 minutes are exactly the slots of N's rule, each tagged temporary
\* with the id of the override row just inserted.
C11_NewOverrideSessions ==
    [][\A g \in Groups : Called("create_temporary_override", g) =>
       \A p \in CreatePayloads : Created(g, p) =>
          LET inside == {s \in sessions' :
                            /\ s.group_id = g
                            /\ p.start_date <= s.date /\ s.date <= p.end_date
                            /\ StartsAfter(s.date, s.start_time, CutoffDt(now))}
          IN  /\ {<<s.date, s.start_time, s.end_time>> : s \in inside} = FutureSlots(p)
              /\ Cardinality(inside) = Cardinality(FutureSlots(p))
              /\ \A s \in inside : s.is_temporary = 1 /\ s.override_id = override_seq'
              /\ override_seq' > override_seq]_vars

\* an override was created over base sessions: one of its future dates carries
\* its temporary session where the base rule has another time
C11_Witness ==
    \E g \in Groups : \E o \in OverridesOf(g) :
        /\ last.op = "create_temporary_override" /\ last.group_id = g /\ last.err = "none"
        /\ o.id = override_seq
        /\ \E s \in SessionsOf(g) : \E b \in group_schedule_days :
              /\ InRange(s.date, o) /\ Future(s) /\ s.override_id = o.id
              /\ b.group_id = g /\ b.weekday = Weekday(s.date) /\ b.start_time # s.start_time

-----------------------------------------------------------------------------
(* Full regenerate: what it leaves in the store *)

\* the stored base schedule of g carries the range, weekday rules and
\* exclusions of rule p
BaseIs(g, p) ==
    /\ {r \in group_schedules' : r.group_id = g}
            = {[group_id |-> g, start_date |-> p.start_date, end_date |-> p.end_date]}
    /\ {r.date : r \in {x \in group_schedule_exclusions' : x.group_id = g}} = p.exclusions
    /\ {<<r.weekday, r.start_time, r.end_time>> :
            r \in {x \in group_schedule_days' : x.group_id = g}}
            = {<<w, p.days[w].start, p.days[w].end>> : w \in {x \in 0..6 : p.days[x].enabled}}

\* the step taken is the call of save_base_schedule for g with payload p, and
\* it committed
SavedFull(g, p) ==
    /\ Called("save_base_schedule", g)
    /\ last'.err = "none"
    /\ LET res == save_group_schedule_and_regenerate(Db, g, p)
       IN  res.err = "none" /\ Store(res.db)

\* (date, start, end) of every slot of rule p
AllSlots(p) ==
    {<<d, p.days[Weekday(d)].start, p.days[Weekday(d)].end>> :
        d \in {x \in p.start_date .. p.end_date :
                  p.days[Weekday(x)].enabled /\ x \notin p.exclusions}}

\* C12: save_base_schedule with a rule leaves as the group's sessions exactly
\* one new non-temporary session per date of [start_date, end_date] whose
\* weekday is enabled and which is not excluded; every session stored before,
\* past or future, base or override, is gone.
C12_FullRegenerateExact ==
    [][\A g \in Groups : Called("save_base_schedule", g) =>
          \A p \in BasePayloads : (BaseIs(g, p) /\ SavedFull(g, p)) =>
              LET mine == {s \in sessions' : s.group_id = g}
              IN  /\ {<<s.date, s.start_time, s.end_time>> : s \in mine} = AllSlots(p)
                  /\ Cardinality(mine) = Cardinality(AllSlots(p))
                  /\ \A s \in mine : s.is_temporary = 0 /\ s.override_id = NULL
                  /\ \A s \in mine : s.id > session_seq]_vars

\* a full regenerate ran over a store that held earlier sessions and an
\* override: a past date carries a session again and nothing temporary is left
C12_Witness ==
    \E g \in Groups :
        /\ last.op = "save_base_schedule" /\ last.group_id = g /\ last.err = "none"
        /\ OverridesOf(g) # {}
        /\ \E s \in SessionsOf(g) : s.date < now.date
        /\ \A s \in SessionsOf(g) : s.is_temporary = 0
        /\ session_seq > Cardinality(SessionsOf(g)) + 1

-----------------------------------------------------------------------------
(* Sessions, attendance marks and the roster *)

\* C13: save_base_schedule with no rule deletes the group's base schedule row,
\* its weekday rules, its exclusions and every session of the group, past
\* ones included; no attendance mark of a former session of the group is left.
C13_NoRuleWipesGroup ==
    [][\A g \in Groups :
          (/\ Called("save_base_schedule", g)
           /\ Store(save_group_schedule_and_regenerate(Db, g, None).db)) =>
              /\ last'.err = "none"
              /\ \A r \in group_schedules' : r.group_id # g
              /\ \A r \in group_schedule_days' : r.group_id # g
              /\ \A r \in group_schedule_exclusions' : r.group_id # g
              /\ \A r \in sessions' : r.group_id # g
              /\ \A a \in attendance' : a.session_id \notin {x.id : x \in SessionsOf(g)}]_vars

\* the group was wiped after it had sessions: nothing of it is stored, while
\* its students are still enrolled
C13_Witness ==
    \E g \in Groups :
        /\ last.op = "save_base_schedule" /\ last.group_id = g /\ last.err = "none"
        /\ \A r \in group_schedules : r.group_id # g
        /\ SessionsOf(g) = {}
        /\ session_seq > 0
        /\ attendance = {}
        /\ \E sg \in student_group : sg.group_id = g

\* the students currently linked to the group
Members(g) == {sg.student_id : sg \in {x \in student_group : x.group_id = g}}

\* the students with an attendance mark for the session
MarkedAt(s) == {a.student_id : a \in {x \in attendance : x.session_id = s.id}}

Range(seq) == {seq[i] : i \in DOMAIN seq}

Roster(s) == get_session_review_lists(Db, students, student_group, s.id, s.group_id)

\* C14: the roster of a session lists as present exactly the current members
\* of the group that have a mark for the session and as absent exactly the
\* current members that have none; no student is listed twice, total is the
\* number of current members, and a marked student who is no longer a member
\* is in neither list.
C14_RosterPartitionsMembers ==
    \A s \in sessions :
        LET r == Roster(s)
        IN  /\ Range(r.present) = Members(s.group_id) \cap MarkedAt(s)
            /\ Range(r.absent) = Members(s.group_id) \ MarkedAt(s)
            /\ Range(r.present) \cap Range(r.absent) = {}
            /\ r.total = Cardinality(Members(s.group_id))
            /\ Len(r.present) + Len(r.absent) = r.total
            /\ \A st \in MarkedAt(s) \ Members(s.group_id) :
                  st \notin Range(r.present) \cup Range(r.absent)

\* a session marked by a student who has left the group since, with another
\* student still a member
C14_Witness ==
    \E s \in sessions :
        /\ MarkedAt(s) \ Members(s.group_id) # {}
        /\ Members(s.group_id) # {}
        /\ last.op = "set_student_groups"

\* C15: every stored attendance mark refers to a stored session, whatever
\* sessions were deleted by hand or by a regeneration.
C15_MarksHaveSessions ==
    \A a \in attendance : \E s \in sessions : s.id = a.session_id

\* a deletion has just removed a session that had opened before now (the
\* sessions that open before now carry the marks), and marks of another
\* session are still stored
C15_Witness ==
    /\ last.op \in {"delete_session", "save_base_schedule"}
    /\ last.err = "none"
    /\ attendance # {}
    /\ \E i \in 1 .. session_seq :
          /\ \A s \in sessions : s.id # i
          /\ \E a \in attendance : a.session_id > i

-----------------------------------------------------------------------------
(* The worked example of the preview count *)

\* start 2024-09-01, end 2024-09-30, Monday and Wednesday 17:00-18:30,
\* 2024-09-04 excluded
ExampleRule ==
    [start_date |-> 0, end_date |-> 29, days |-> DaysMap({0, 2}, <<1020, 1110>>),
     exclusions |-> {3}]

\* the stored base schedule of g is the example rule
ExampleStored(g) ==
    /\ [group_id |-> g, start_date |-> 0, end_date |-> 29] \in group_schedules
    /\ {<<r.weekday, r.start_time, r.end_time>> :
            r \in {x \in group_schedule_days : x.group_id = g}}
            = {<<0, 1020, 1110>>, <<2, 1020, 1110>>}
    /\ {r.date : r \in {x \in group_schedule_exclusions : x.group_id = g}} = {3}

\* C16: for the example rule the preview count is 8, and the full regenerate
\* of that rule stores 8 sessions, five on Mondays and three on Wednesdays,
\* none of them on 2024-09-04.
C16_ExampleCountsEight ==
    /\ _count_sessions(ExampleRule.start_date, ExampleRule.end_date,
                       DOMAIN WeekdayTime(ExampleRule.days), ExampleRule.exclusions) = 8
    /\ \A g \in Groups :
          (ExampleStored(g) /\ last.op = "save_base_schedule" /\ last.err = "none") =>
              /\ Cardinality(SessionsOf(g)) = 8
              /\ Cardinality({s \in SessionsOf(g) : Weekday(s.date) = 0}) = 5
              /\ Cardinality({s \in SessionsOf(g) : Weekday(s.date) = 2}) = 3
              /\ \A s \in SessionsOf(g) : s.date # 3

C16_Witness ==
    \E g \in Groups :
        /\ ExampleStored(g) /\ last.op = "save_base_schedule" /\ last.err = "none"
        /\ \E s \in SessionsOf(g) : s.date = 29
        /\ \E s \in SessionsOf(g) : s.date = 10

-----------------------------------------------------------------------------
(* The lock of a running session *)

LockedOps == {"save_base_schedule_future_only", "create_temporary_override"}

-----------------------------------------------------------------------------
(* Rules that fail validation *)

RuleOps == {"save_base_schedule", "save_base_schedule_future_only",
            "create_temporary_override"}

\* C18: save_base_schedule, save_base_schedule_future_only and
\* create_temporary_override, called with a rule whose end date is before its
\* start date or which has no enabled weekday, end with an error and leave the
\* group's schedule, override and session rows unchanged.
C18_InvalidRuleRejected ==
    [][\A g \in Groups : \A op \in RuleOps : Called(op, g) =>
          (last'.err # "none" /\ RowsOf(g, Db)' = RowsOf(g, Db))]_vars

-----------------------------------------------------------------------------
(* What the override operations leave alone *)

\* the group's rows of the three base-schedule tables
BaseRowsOf(g, db) ==
    <<{r \in db.group_schedules : r.group_id = g},
      {r \in db.group_schedule_days : r.group_id = g},
      {r \in db.group_schedule_exclusions : r.group_id = g}>>

\* the override rows this step inserted: the new override has the highest id,
\* the right remainders of splits the ids between
InsertedOverrides == {o \in group_schedule_overrides' : o.id > override_seq}

NewOverride == CHOOSE o \in group_schedule_overrides' : o.id = override_seq'

\* C20: when create_temporary_override(N) commits, every override of the
\* group that was stored with its range fully inside N's range is deleted, and
\* no weekday-rule row and no exclusion row refers to its id any more.
C20_CoveredOverrideDeleted ==
    [][\A g \in Groups :
          (Called("create_temporary_override", g) /\ last'.err = "none") =>
              \A o \in OverridesOf(g) :
                  (o.start_date >= NewOverride.start_date /\ o.end_date <= NewOverride.end_date) =>
                      /\ \A r \in group_schedule_overrides' : r.id # o.id
                      /\ \A r \in group_override_days' : r.override_id # o.id
                      /\ \A r \in group_override_exclusions' : r.override_id # o.id]_vars

\* the second override of the group is gone after the creation of a third one,
\* which carries an excluded date, while the first is still stored
C20_Witness ==
    \E g \in Groups : \E k \in OverridesOf(g) :
        /\ last.op = "create_temporary_override" /\ last.group_id = g /\ last.err = "none"
        /\ override_seq = 3
        /\ k.id = 1
        /\ \A o \in group_schedule_overrides : o.id # 2
        /\ \E x \in group_override_exclusions : x.override_id = 3

-----------------------------------------------------------------------------
(* An override that overlaps the new one on one side *)

\* C21: when create_temporary_override(N) commits and a stored override O of
\* the group starts before N.start and ends inside N, O's row keeps its id and
\* weekday rules and ends at N.start - 1; when O starts inside N and ends after
\* N.end, O's row keeps its id and weekday rules and starts at N.end + 1; in
\* both cases O keeps exactly those of its exclusions that lie in its new range.
C21_PartialOverlapShrinks ==
    [][\A g \in Groups :
          (Called("create_temporary_override", g) /\ last'.err = "none") =>
          \A o \in OverridesOf(g) :
              LET n == NewOverride
                  kept(lo, hi) ==
                      /\ {r \in group_schedule_overrides' : r.id = o.id}
                            = {[o EXCEPT !.start_date = lo, !.end_date = hi]}
                      /\ OverrideDays(group_override_days', o.id)
                            = OverrideDays(group_override_days, o.id)
                      /\ OverrideExclusions(group_override_exclusions', o.id)
                            = {d \in OverrideExclusions(group_override_exclusions, o.id) :
                                  lo <= d /\ d <= hi}
              IN  /\ (o.start_date < n.start_date /\ n.start_date <= o.end_date
                         /\ o.end_date <= n.end_date)
                     => kept(o.start_date, n.start_date - 1)
                  /\ (n.start_date <= o.start_date /\ o.start_date <= n.end_date
                         /\ n.end_date < o.end_date)
                     => kept(n.end_date + 1, o.end_date)]_vars

\* the first override, created with its first and last modelled date excluded,
\* now ends the day before the second one starts and has lost the exclusion
\* that the second one's range took over
C21_Witness ==
    \E g \in Groups : \E o \in OverridesOf(g) : \E n \in OverridesOf(g) :
        /\ last.op = "create_temporary_override" /\ last.group_id = g /\ last.err = "none"
        /\ override_seq = 2 /\ o.id = 1 /\ n.id = 2
        /\ o.end_date + 1 = n.start_date
        /\ OverrideExclusions(group_override_exclusions, o.id) = {o.start_date}
        /\ OverrideDays(group_override_days, o.id) # {}

-----------------------------------------------------------------------------
(* Which sessions a student's history takes *)

\* what the attendance window shows for a student of a group, now
Window(g, st) == open_student_attendance_record(Db, students, g, st, now)

\* the session has a row in the month history or in the attendance window
InHistory(g, st, s) == Entries(History(g, st), s) # {} \/ Entries(Window(g, st), s) # {}

\* the end instant of the session is at or before now
EndedAtOrBefore(s) == s.date < now.date \/ (s.date = now.date /\ s.end_time <= now.time)

-----------------------------------------------------------------------------
(* The clock of a call *)

\* (date, start, end) of the slots of the base rule stored for g in db
BaseSlotsOf(g, db) ==
    LET dates == UNION {r.start_date .. r.end_date :
                            r \in {x \in db.group_schedules : x.group_id = g}}
                    \ {x.date : x \in {y \in db.group_schedule_exclusions : y.group_id = g}}
        days == {x \in db.group_schedule_days : x.group_id = g}
    IN  {<<x[1], x[2].start_time, x[2].end_time>> :
            x \in {y \in dates \X days : y[2].weekday = Weekday(y[1])}}

\* (date, start, end) of the slots of the override o stored in db
OverrideSlotsOf(o, db) ==
    LET dates == (o.start_date .. o.end_date)
                    \ {x.date : x \in {y \in db.group_override_exclusions : y.override_id = o.id}}
        days == {x \in db.group_override_days : x.override_id = o.id}
    IN  {<<x[1], x[2].start_time, x[2].end_time>> :
            x \in {y \in dates \X days : y[2].weekday = Weekday(y[1])}}

\* the sessions this step inserted
InsertedSessions == {s \in sessions' : s.id > session_seq}

SlotOf(s) == <<s.date, s.start_time, s.end_time>>

\* C23: in one call of save_base_schedule_future_only or create_temporary_override
\* during which the clock goes on, the lock is decided, the sessions to delete
\* are chosen and the sessions to insert are chosen all by the instant the call
\* started at: the call is refused exactly when a session was running then,
\* a committed call deletes only sessions that started after that instant + 30
\* minutes, the future-only save deletes all of those and inserts the slots of
\* the rule after that instant, and the override creation replaces the sessions
\* of its range after that instant + 30 minutes by the override's slots after it.
C23_SingleClockReading ==
    [][\A g \in Groups : \A op \in LockedOps : Called(op, g) =>
          /\ (last'.err = "RuntimeError") <=> Running(g)
          /\ last'.err = "none" =>
                /\ \A s \in SessionsOf(g) : s \notin sessions' => Future(s)
                /\ op = "save_base_schedule_future_only" =>
                      /\ \A s \in SessionsOf(g) : Future(s) => s \notin sessions'
                      /\ {SlotOf(s) : s \in InsertedSessions}
                            = {x \in BaseSlotsOf(g, Db') : StartsAfter(x[1], x[2], now)}
                /\ op = "create_temporary_override" =>
                      /\ \A s \in SessionsOf(g) :
                            (Future(s) /\ InRange(s.date, NewOverride)) => s \notin sessions'
                      /\ {SlotOf(s) : s \in {x \in InsertedSessions : x.override_id = override_seq'}}
                            = {x \in OverrideSlotsOf(NewOverride, Db') :
                                  StartsAfter(x[1], x[2], CutoffDt(now))}]_vars

\* a future-only save started at 09:15 and ended later: it has deleted today's
\* 10:00 session, which was more than 30 minutes ahead at 09:15 and no longer
\* when the call ended, and has kept yesterday's
C23_Witness ==
    \E g \in Groups :
        /\ last.op = "save_base_schedule_future_only" /\ last.group_id = g /\ last.err = "none"
        /\ "at" \in DOMAIN last
        /\ last.at.time = 555 /\ now.time = 615
        /\ \E s \in SessionsOf(g) : s.date < now.date /\ s.start_time = 600
        /\ \A s \in SessionsOf(g) : s.date # now.date
        /\ \E w \in group_schedule_days :
              w.group_id = g /\ w.weekday = Weekday(now.date) /\ w.start_time = 5

-----------------------------------------------------------------------------
(* What a reader sees while a call runs *)

\* the tables as a reader on another connection sees them now
View == Visible(Db, Working)

\* the function of schedule.py behind an operation, as one step
Atomic(op, db, group_id, payload, now_dt) ==
    CASE op = "save_base_schedule" -> save_group_schedule_and_regenerate(db, group_id, payload)
      [] op = "save_base_schedule_future_only" ->
            save_group_schedule_and_regenerate_edit(db, group_id, payload, now_dt)
      [] op = "create_temporary_override" ->
            save_temporary_override_and_regenerate_edit(db, group_id, payload, now_dt)
      [] op = "reapply_overrides_future" -> apply_overrides_future(db, group_id, now_dt)

\* C24: whenever the tables a concurrent reader sees change, they change from
\* the complete state before a call of save_base_schedule,
\* save_base_schedule_future_only, create_temporary_override or
\* reapply_overrides_future to the complete state after it; no state between
\* two statements of a call is ever seen, and a call that fails shows nothing.
C24_ReadersSeeWholeCalls ==
    [][View' # View =>
          /\ txn.open /\ ~txn'.open
          /\ last'.err = "none"
          /\ LET res == Atomic(txn.op, View, txn.group_id, txn.payload, txn.at)
             IN  res.err = "none" /\ View' = res.db]_vars

\* an override creation is between two statements: in its working copy a stored
\* override is already cut back and the new override not yet inserted, while
\* the committed tables still hold the override as it was
C24_Witness ==
    /\ txn.open /\ txn.op = "create_temporary_override"
    /\ \E o \in group_schedule_overrides : \E w \in Working.group_schedule_overrides :
          w.id = o.id /\ w.end_date < o.end_date
    /\ \A w \in Working.group_schedule_overrides : ~InRange(txn.payload.start_date, w)
    /\ \E o \in group_schedule_overrides : InRange(txn.payload.start_date, o)

-----------------------------------------------------------------------------
(* A future-only save over sessions that are about to start *)

\* C25: save_base_schedule_future_only, called with a rule while no session of
\* the group is running, commits whatever sessions are stored; it does not fail
\* on a stored session that starts within the next 30 minutes.
C25_FutureOnlySaveCommits ==
    [][\A g \in Groups :
          (Called("save_base_schedule_future_only", g) /\ ~Running(g)) =>
              last'.err = "none"]_vars

-----------------------------------------------------------------------------
(* Marks under future-only regenerations *)

FutureOnlyOps == {"save_base_schedule_future_only", "create_temporary_override",
                  "reapply_overrides_future"}

-----------------------------------------------------------------------------
(* The override a session refers to *)

\* C27: every stored session with a non-null override_id refers to a stored
\* override whose date range contains the session's date.
C27_OverrideReferencesValid ==
    \A s \in sessions :
        s.override_id # NULL =>
            \E o \in group_schedule_overrides : o.id = s.override_id /\ InRange(s.date, o)

-----------------------------------------------------------------------------
(* The attendance window and the month history *)

\* (bucket, session, present) of every row of a history
HistoryRows(h) ==
    UNION {{<<k, h[k][i].session_id, h[k][i].present>> : i \in 1 .. Len(h[k])} : k \in DOMAIN h}

\* C28: for every student of a group, the attendance window shows the same
\* sessions with the same present flags in the same (year, month) buckets as
\* the month history.
C28_WindowEqualsHistory ==
    \A g \in Groups : \A st \in {x.id : x \in students} :
        HistoryRows(Window(g, st)) = HistoryRows(History(g, st))

-----------------------------------------------------------------------------
(* The temporary flag and the override reference *)

\* C29: a stored session has is_temporary = 1 exactly when its override_id is
\* not null, after any sequence of full and future-only base saves, override
\* creations, reapplications and manual additions, updates and deletions.
C29_TemporaryIffOverride ==
    \A s \in sessions : (s.is_temporary = 1) <=> (s.override_id # NULL)

\* base sessions and a temporary session are stored, and the temporary one has
\* been moved by hand since: its time is not the time of its override's rule
C29_Witness ==
    /\ last.op = "update_session" /\ last.err = "none"
    /\ \E t \in sessions : t.is_temporary = 0 /\ t.override_id = NULL
    /\ \E s \in sessions : \E o \in group_schedule_overrides :
          /\ s.is_temporary = 1 /\ s.override_id = o.id
          /\ \A r \in group_override_days :
                r.override_id = o.id => r.start_time # s.start_time

-----------------------------------------------------------------------------
(* Reapplying the overrides twice *)

\* the session rows of a store without their ids
SessionFacts(db) ==
    {<<s.group_id, s.date, s.start_time, s.end_time, s.is_temporary, s.override_id>> :
        s \in db.sessions}

\* C30: once reapply_overrides_future has committed, running it again at the
\* same instant commits too and leaves the same session rows, compared by
\* (group, date, start_time, end_time, is_temporary, override_id), and the same
\* override rows with their weekday rules and exclusions.
C30_ReapplyIdempotent ==
    [][\A g \in Groups :
          (Called("reapply_overrides_future", g) /\ last'.err = "none") =>
              LET again == apply_overrides_future(Db', g, now')
              IN  /\ again.err = "none"
                  /\ SessionFacts(again.db) = SessionFacts(Db')
                  /\ again.db.group_schedule_overrides = group_schedule_overrides'
                  /\ again.db.group_override_days = group_override_days'
                  /\ again.db.group_override_exclusions = group_override_exclusions']_vars

\* a reapplication has just rebuilt the future sessions of an override, next to
\* a base session inside the override's range that it has left alone
C30_Witness ==
    \E g \in Groups : \E o \in OverridesOf(g) : \E s \in SessionsOf(g) : \E t \in SessionsOf(g) :
        /\ last.op = "reapply_overrides_future" /\ last.group_id = g /\ last.err = "none"
        /\ s.override_id = o.id /\ s.id = session_seq /\ Future(s)
        /\ t.is_temporary = 0 /\ InRange(t.date, o) /\ ~Future(t)
        /\ session_seq > Cardinality(sessions) + 1

====
